---- MODULE Spec2Model ----
(***************************************************************************)
(* The packaging declaration of ai-video-editor-agent (setup.py) and the   *)
(* installation it drives.  The repository's only code is the setup(...)   *)
(* call; the keyword arguments below are transcribed from it character by  *)
(* character.  What the build tool does with them (reading a requirement   *)
(* string, ordering versions, checking Requires-Python, resolving          *)
(* install_requires, discovering packages) follows the meaning setuptools  *)
(* and the packaging standards give to those keywords, restricted to final *)
(* releases N(.N)* (no pre-release, post-release or local version tags).   *)
(*                                                                         *)
(* Text that the tools parse is a sequence of one-character strings, so    *)
(* that parsing is computed and not assumed.                               *)
(***************************************************************************)
EXTENDS Integers, Sequences, FiniteSets, TLC

VARIABLES
    pc,         \* position of the installation
    runtime,    \* version text of the interpreter running the install
    index,      \* project name -> version texts the package index offers
    tree,       \* files of the source tree, each a path of components
    metadata,   \* what setup() handed to the build tool
    nxt,        \* position in Requires-Dist of the next requirement
    selected,   \* project name -> version chosen for it
    modules,    \* importable packages put in site-packages
    commands    \* executables put on PATH

vars == <<pc, runtime, index, tree, metadata, nxt, selected, modules, commands>>

(***************************************************************************)
(* Bounds of the environment.                                              *)
(***************************************************************************)
\* how many versions of one project the index offers at most
MaxAvail == 1

(***************************************************************************)
(* Text helpers.                                                           *)
(***************************************************************************)
DigitChars == <<"0", "1", "2", "3", "4", "5", "6", "7", "8", "9">>

Digits == {DigitChars[i] : i \in 1..Len(DigitChars)}

Letters ==
    {"a", "b", "c", "d", "e", "f", "g", "h", "i", "j", "k", "l", "m",
     "n", "o", "p", "q", "r", "s", "t", "u", "v", "w", "x", "y", "z"}

NameChars == Letters \cup Digits \cup {"-", "_", "."}

OpChars == {"<", ">", "=", "!", "~"}

\* value of a digit character
DigitValue(c) == (CHOOSE i \in 1..Len(DigitChars) : DigitChars[i] = c) - 1

\* length of the longest prefix of s made of characters of S
PrefixLen(s, S) ==
    IF \A i \in 1..Len(s) : s[i] \in S
    THEN Len(s)
    ELSE (CHOOSE i \in 1..Len(s) :
              s[i] \notin S /\ \A j \in 1..(i - 1) : s[j] \in S) - 1

RECURSIVE Split(_, _)
\* the pieces of s between occurrences of sep (str.split)
Split(s, sep) ==
    IF \A i \in 1..Len(s) : s[i] # sep
    THEN <<s>>
    ELSE LET k == CHOOSE i \in 1..Len(s) :
                      s[i] = sep /\ \A j \in 1..(i - 1) : s[j] # sep
         IN  <<SubSeq(s, 1, k - 1)>> \o Split(SubSeq(s, k + 1, Len(s)), sep)

RECURSIVE ParseNat(_)
\* int() of a text of decimal digits
ParseNat(s) ==
    IF Len(s) = 0 THEN 0
    ELSE 10 * ParseNat(SubSeq(s, 1, Len(s) - 1)) + DigitValue(s[Len(s)])

RECURSIVE FormatNat(_)
\* str() of a natural number
FormatNat(n) ==
    IF n < 10 THEN <<DigitChars[n + 1]>>
    ELSE FormatNat(n \div 10) \o <<DigitChars[(n % 10) + 1]>>

RECURSIVE FormatVersion(_)
\* the text of a release tuple, components joined by dots
FormatVersion(t) ==
    IF Len(t) = 1 THEN FormatNat(t[1])
    ELSE FormatNat(t[1]) \o <<".">> \o FormatVersion(Tail(t))

(***************************************************************************)
(* Versions, version specifiers and requirement strings.                   *)
(***************************************************************************)
\* a version text N(.N)* read as its release tuple
ParseVersion(s) ==
    LET pieces == Split(s, ".")
        ok == \A i \in 1..Len(pieces) :
                  /\ Len(pieces[i]) > 0
                  /\ \A j \in 1..Len(pieces[i]) : pieces[i][j] \in Digits
    IN  [valid |-> ok,
         release |-> IF ok THEN [i \in 1..Len(pieces) |-> ParseNat(pieces[i])]
                     ELSE <<>>]

Component(v, i) == IF i <= Len(v) THEN v[i] ELSE 0

RECURSIVE CompareFrom(_, _, _)
CompareFrom(v, w, i) ==
    IF i > Len(v) /\ i > Len(w) THEN 0
    ELSE IF Component(v, i) < Component(w, i) THEN -1
    ELSE IF Component(v, i) > Component(w, i) THEN 1
    ELSE CompareFrom(v, w, i + 1)

\* order of two release tuples, the shorter padded with zeros: -1, 0 or 1
Compare(v, w) == CompareFrom(v, w, 1)

OpGE == <<">", "=">>
OpLE == <<"<", "=">>
OpEQ == <<"=", "=">>
OpNE == <<"!", "=">>
OpGT == <<">">>
OpLT == <<"<">>

KnownOps == {OpGE, OpLE, OpEQ, OpNE, OpGT, OpLT}

\* one clause of a specifier, such as >=4.8.0
ParseSpecifier(s) ==
    LET n == PrefixLen(s, OpChars)
        op == SubSeq(s, 1, n)
        ver == ParseVersion(SubSeq(s, n + 1, Len(s)))
    IN  [valid |-> op \in KnownOps /\ ver.valid,
         op |-> op,
         version |-> ver.release]

\* a comma-separated list of clauses; the empty text is the empty list
ParseSpecifierSet(s) ==
    IF Len(s) = 0 THEN [valid |-> TRUE, clauses |-> <<>>]
    ELSE LET parts == Split(s, ",")
             parsed == [i \in 1..Len(parts) |-> ParseSpecifier(parts[i])]
         IN  [valid |-> \A i \in 1..Len(parts) : parsed[i].valid,
              clauses |-> parsed]

\* a requirement string: a project name followed by a specifier set
ParseRequirement(s) ==
    LET n == PrefixLen(s, NameChars)
        specs == ParseSpecifierSet(SubSeq(s, n + 1, Len(s)))
    IN  [valid |-> n > 0 /\ specs.valid,
         name |-> SubSeq(s, 1, n),
         clauses |-> specs.clauses]

\* does release v meet the clause (op, w)
Holds(op, v, w) ==
    CASE op = OpGE -> Compare(v, w) >= 0
      [] op = OpLE -> Compare(v, w) <= 0
      [] op = OpEQ -> Compare(v, w) = 0
      [] op = OpNE -> Compare(v, w) # 0
      [] op = OpGT -> Compare(v, w) > 0
      [] op = OpLT -> Compare(v, w) < 0

\* does the version text meet every clause
Satisfies(clauses, text) ==
    LET v == ParseVersion(text)
    IN  /\ v.valid
        /\ \A i \in 1..Len(clauses) :
               Holds(clauses[i].op, v.release, clauses[i].version)

(***************************************************************************)
(* The manifest: the keyword arguments of the setup(...) call.             *)
(***************************************************************************)
name == "ai-video-editor-agent"

version == "0.1.0"

author == "Hernane Bini"

description == "AI-Powered Video Editor Agent"

\* the names of the projects an index serves
OpenCV == <<"o", "p", "e", "n", "c", "v", "-", "p", "y", "t", "h", "o", "n">>
Torch == <<"t", "o", "r", "c", "h">>
FastAPI == <<"f", "a", "s", "t", "a", "p", "i">>
Pytest == <<"p", "y", "t", "e", "s", "t">>

Projects == {OpenCV, Torch, FastAPI, Pytest}

\* a slip: '>3.9', an exclusive bound
python_requires_exclusive == <<">", "3", ".", "9">>

\* '>=3.9'
python_requires == <<">", "=", "3", ".", "9">>

\* a slip: torch left out of the list
install_requires_without_torch ==
    << OpenCV \o <<">", "=", "4", ".", "8", ".", "0">>,
       FastAPI \o <<">", "=", "0", ".", "1", "0", "4", ".", "0">>,
       Pytest \o <<">", "=", "7", ".", "4", ".", "0">> >>

\* a slip: the test framework kept out of the install-time list
install_requires_without_pytest ==
    << OpenCV \o <<">", "=", "4", ".", "8", ".", "0">>,
       Torch \o <<">", "=", "2", ".", "1", ".", "0">>,
       FastAPI \o <<">", "=", "0", ".", "1", "0", "4", ".", "0">> >>

\* a slip: a digit of fastapi's minimum dropped, 'fastapi>=0.14.0'
install_requires_typo ==
    << OpenCV \o <<">", "=", "4", ".", "8", ".", "0">>,
       Torch \o <<">", "=", "2", ".", "1", ".", "0">>,
       FastAPI \o <<">", "=", "0", ".", "1", "4", ".", "0">>,
       Pytest \o <<">", "=", "7", ".", "4", ".", "0">> >>

\* a slip: torch pinned, 'torch==2.1.0'
install_requires_pinned ==
    << OpenCV \o <<">", "=", "4", ".", "8", ".", "0">>,
       Torch \o <<"=", "=", "2", ".", "1", ".", "0">>,
       FastAPI \o <<">", "=", "0", ".", "1", "0", "4", ".", "0">>,
       Pytest \o <<">", "=", "7", ".", "4", ".", "0">> >>

\* ['opencv-python>=4.8.0', 'torch>=2.1.0', 'fastapi>=0.104.0', 'pytest>=7.4.0']
install_requires ==
    << <<"o", "p", "e", "n", "c", "v", "-", "p", "y", "t", "h", "o", "n",
         ">", "=", "4", ".", "8", ".", "0">>,
       <<"t", "o", "r", "c", "h", ">", "=", "2", ".", "1", ".", "0">>,
       <<"f", "a", "s", "t", "a", "p", "i",
         ">", "=", "0", ".", "1", "0", "4", ".", "0">>,
       <<"p", "y", "t", "e", "s", "t", ">", "=", "7", ".", "4", ".", "0">> >>

\* the directories of the tree t, each the path from the root
Directories(t) ==
    UNION {{SubSeq(f, 1, k) : k \in 1..(Len(f) - 1)} : f \in t}

\* a slip: find_namespace_packages(), which takes every directory
find_namespace_packages(t) == Directories(t)

\* find_packages(): the directories that hold an __init__.py, and whose
\* parent directories all do
find_packages(t) ==
    {d \in Directories(t) :
        \A k \in 1..Len(d) : (SubSeq(d, 1, k) \o <<"__init__.py">>) \in t}

\* a slip: the call also registers a console script
setup_kwargs_with_cli(t) ==
    [name |-> name,
     version |-> version,
     author |-> author,
     description |-> description,
     packages |-> find_packages(t),
     python_requires |-> python_requires,
     install_requires |-> install_requires,
     entry_points |-> [g \in {"console_scripts"} |-> {"ai-video-editor"}]]

\* the keyword arguments as the call passes them
setup_kwargs(t) ==
    [name |-> name,
     version |-> version,
     author |-> author,
     description |-> description,
     packages |-> find_packages(t),
     python_requires |-> python_requires,
     install_requires |-> install_requires]

\* the value of a keyword, or its default when the call does not pass it
Keyword(kw, key, default) ==
    IF key \in DOMAIN kw THEN kw[key] ELSE default

\* setup(): the distribution metadata the build tool derives from the keywords
setup(kw) ==
    LET reqs == Keyword(kw, "install_requires", <<>>)
        eps == Keyword(kw, "entry_points", [g \in {} |-> {}])
    IN  [name |-> Keyword(kw, "name", "UNKNOWN"),
         version |-> Keyword(kw, "version", "0.0.0"),
         author |-> Keyword(kw, "author", ""),
         summary |-> Keyword(kw, "description", ""),
         requires_python |->
             ParseSpecifierSet(Keyword(kw, "python_requires", <<>>)),
         requires_dist |-> [i \in 1..Len(reqs) |-> ParseRequirement(reqs[i])],
         provides_extra |-> DOMAIN Keyword(kw, "extras_require", [e \in {} |-> <<>>]),
         packages |-> Keyword(kw, "packages", {}),
         py_modules |-> Keyword(kw, "py_modules", {}),
         scripts |-> Keyword(kw, "scripts", {}),
         entry_points |-> eps]

\* the executables an installation of the metadata m creates
Executables(m) ==
    m.scripts \cup UNION {m.entry_points[g] :
                             g \in DOMAIN m.entry_points
                                   \cap {"console_scripts", "gui_scripts"}}

\* is the metadata well formed
ValidMetadata(m) ==
    /\ m.requires_python.valid
    /\ \A i \in 1..Len(m.requires_dist) : m.requires_dist[i].valid

NoMetadata == [name |-> "", version |-> ""]

(***************************************************************************)
(* The environment of an installation: the interpreter, the package index  *)
(* and the files beside setup.py.                                          *)
(***************************************************************************)
\* releases of the interpreter an install may run on
RuntimeReleases ==
    {<<2, 7, 18>>, <<3, 8, 18>>, <<3, 9, 0>>, <<3, 10, 4>>, <<3, 13, 0>>,
     <<4, 0, 0>>}

RuntimeVersions == {FormatVersion(t) : t \in RuntimeReleases}

\* the releases of each project that exist
Releases(p) ==
    CASE p = OpenCV -> {<<3, 4, 18, 65>>, <<4, 7, 0, 72>>, <<4, 8, 0, 74>>,
                        <<4, 10, 0, 84>>}
      [] p = Torch -> {<<2, 0, 1>>, <<2, 1, 0>>, <<2, 5, 1>>}
      [] p = FastAPI -> {<<0, 99, 1>>, <<0, 104, 0>>, <<0, 115, 4>>}
      [] p = Pytest -> {<<7, 3, 2>>, <<7, 4, 0>>, <<8, 3, 3>>}

\* their version texts, as an index publishes them
Published(p) == {FormatVersion(t) : t \in Releases(p)}

\* the files a checkout may hold beside setup.py; none is Python code
OtherFiles == {<<"README.md">>, <<"docs", "usage.md">>}

\* the sets of releases of a project that an index may offer at once
Offers(p) == {s \in SUBSET Published(p) : Cardinality(s) <= MaxAvail}

\* what the index offers for a project name
Available(p) == IF p \in DOMAIN index THEN index[p] ELSE {}

Init ==
    /\ pc = "start"
    /\ runtime \in RuntimeVersions
    /\ \E a \in Offers(OpenCV), b \in Offers(Torch),
          c \in Offers(FastAPI), d \in Offers(Pytest) :
           index = (OpenCV :> a) @@ (Torch :> b) @@ (FastAPI :> c) @@ (Pytest :> d)
    /\ tree \in {{<<"setup.py">>} \cup o : o \in SUBSET OtherFiles}
    /\ metadata = NoMetadata
    /\ nxt = 0
    /\ selected = [p \in {} |-> <<>>]
    /\ modules = {}
    /\ commands = {}

(***************************************************************************)
(* The steps of an installation.                                           *)
(***************************************************************************)
\* the build tool runs setup.py and obtains the metadata
RunSetup ==
    /\ pc = "start"
    /\ metadata' = setup(setup_kwargs(tree))
    /\ pc' = IF ValidMetadata(metadata') THEN "prepared" ELSE "error"
    /\ UNCHANGED <<runtime, index, tree, nxt, selected, modules, commands>>

\* the interpreter meets Requires-Python
PythonAccepted ==
    /\ pc = "prepared"
    /\ Satisfies(metadata.requires_python.clauses, runtime)
    /\ pc' = "resolving"
    /\ nxt' = 1
    /\ UNCHANGED <<runtime, index, tree, metadata, selected, modules, commands>>

\* the interpreter does not meet Requires-Python: the install is refused
PythonRejected ==
    /\ pc = "prepared"
    /\ ~Satisfies(metadata.requires_python.clauses, runtime)
    /\ pc' = "rejected"
    /\ UNCHANGED <<runtime, index, tree, metadata, nxt, selected, modules, commands>>

\* the next requirement is met by a version the index offers
ResolveDep ==
    /\ pc = "resolving"
    /\ nxt <= Len(metadata.requires_dist)
    /\ LET req == metadata.requires_dist[nxt]
       IN  \E v \in Available(req.name) :
               /\ Satisfies(req.clauses, v)
               /\ selected' = [p \in DOMAIN selected \cup {req.name} |->
                                  IF p = req.name THEN v ELSE selected[p]]
    /\ nxt' = nxt + 1
    /\ UNCHANGED <<pc, runtime, index, tree, metadata, modules, commands>>

\* no offered version meets the next requirement: the install fails
ResolveFailed ==
    /\ pc = "resolving"
    /\ nxt <= Len(metadata.requires_dist)
    /\ LET req == metadata.requires_dist[nxt]
       IN  \A v \in Available(req.name) : ~Satisfies(req.clauses, v)
    /\ pc' = "failed"
    /\ UNCHANGED <<runtime, index, tree, metadata, nxt, selected, modules, commands>>

\* every requirement is met: the distribution itself is installed
InstallDist ==
    /\ pc = "resolving"
    /\ nxt > Len(metadata.requires_dist)
    /\ pc' = "installed"
    /\ modules' = metadata.packages \cup metadata.py_modules
    /\ commands' = Executables(metadata)
    /\ UNCHANGED <<runtime, index, tree, metadata, nxt, selected>>

Next ==
    \/ RunSetup
    \/ PythonAccepted
    \/ PythonRejected
    \/ ResolveDep
    \/ ResolveFailed
    \/ InstallDist

Spec == Init /\ [][Next]_vars

(***************************************************************************)
(* Properties.  The minima below are written as numbers, independently of  *)
(* the manifest's text.                                                    *)
(***************************************************************************)
\* the release tuple, among those of S, that the version text stands for
ReleaseIn(S, text) == CHOOSE t \in S : FormatVersion(t) = text

\* t is release a.b.c or a later one
AtLeast(t, a, b, c) ==
    \/ t[1] > a
    \/ t[1] = a /\ t[2] > b
    \/ t[1] = a /\ t[2] = b /\ t[3] >= c

\* release t of project p is at or above the minimum the manifest is to state
MeetsMinimum(p, t) ==
    CASE p = OpenCV -> AtLeast(t, 4, 8, 0)
      [] p = Torch -> AtLeast(t, 2, 1, 0)
      [] p = FastAPI -> AtLeast(t, 0, 104, 0)
      [] p = Pytest -> AtLeast(t, 7, 4, 0)

\* the index offers a release of p at or above its minimum
Resolvable(p) ==
    \E v \in index[p] : MeetsMinimum(p, ReleaseIn(Releases(p), v))

\* setup.py has been run
Prepared == pc \notin {"start", "error"}

\* C1: an install succeeds only if each of the four declared dependencies
\* is resolvable; with one of them not resolvable it never reaches installed.
C1_InstalledOnlyIfAllResolvable ==
    pc = "installed" => \A p \in Projects : Resolvable(p)

C1_Witness ==
    /\ pc = "installed"
    /\ DOMAIN selected = Projects
    /\ \A p \in Projects : Resolvable(p)

\* C2: the manifest parses, and yields the name ai-video-editor-agent, the
\* version 0.1.0 and exactly the four dependencies opencv-python >= 4.8.0,
\* torch >= 2.1.0, fastapi >= 0.104.0, pytest >= 7.4.0.
C2_ParsedManifest ==
    /\ pc # "error"
    /\ pc # "start" =>
        /\ metadata.name = "ai-video-editor-agent"
        /\ metadata.version = "0.1.0"
        /\ Len(metadata.requires_dist) = 4
        /\ {<<metadata.requires_dist[i].name, metadata.requires_dist[i].clauses>> :
                i \in 1..Len(metadata.requires_dist)}
           = {<<OpenCV, <<[valid |-> TRUE, op |-> OpGE, version |-> <<4, 8, 0>>]>> >>,
              <<Torch, <<[valid |-> TRUE, op |-> OpGE, version |-> <<2, 1, 0>>]>> >>,
              <<FastAPI, <<[valid |-> TRUE, op |-> OpGE, version |-> <<0, 104, 0>>]>> >>,
              <<Pytest, <<[valid |-> TRUE, op |-> OpGE, version |-> <<7, 4, 0>>]>> >>}

C2_Witness ==
    /\ pc = "prepared"
    /\ Len(metadata.requires_dist) = 4
    /\ metadata.requires_dist[3].name = FastAPI

\* C3: an install on a runtime below 3.9 is rejected, and every runtime at
\* 3.9 or above, however high, is accepted.
C3_RuntimeAtLeast39 ==
    /\ pc = "rejected" => ~AtLeast(ReleaseIn(RuntimeReleases, runtime), 3, 9, 0)
    /\ pc \in {"resolving", "failed", "installed"} =>
           AtLeast(ReleaseIn(RuntimeReleases, runtime), 3, 9, 0)

C3_Witness ==
    /\ pc = "rejected"
    /\ ReleaseIn(RuntimeReleases, runtime) = <<3, 8, 18>>

\* C4: each declared dependency carries a lower bound only: a release of the
\* project meets the requirement exactly when it is at or above the minimum,
\* so the version chosen is never below it, and resolution fails only when
\* the index offers nothing at or above it.
C4_LowerBoundOnly ==
    /\ pc = "prepared" =>
           \A i \in 1..Len(metadata.requires_dist) :
               LET req == metadata.requires_dist[i]
               IN  /\ req.name \in Projects
                   /\ Len(req.clauses) = 1
                   /\ req.clauses[1].op = OpGE
                   /\ \A t \in Releases(req.name) :
                          Satisfies(req.clauses, FormatVersion(t))
                              <=> MeetsMinimum(req.name, t)
    /\ \A p \in DOMAIN selected : MeetsMinimum(p, ReleaseIn(Releases(p), selected[p]))
    /\ pc = "failed" => ~Resolvable(metadata.requires_dist[nxt].name)

C4_Witness ==
    /\ pc = "installed"
    /\ ReleaseIn(Releases(OpenCV), selected[OpenCV]) = <<4, 10, 0, 84>>
    /\ ReleaseIn(Releases(Torch), selected[Torch]) = <<2, 5, 1>>

\* C5: the manifest registers no entry point, console script or script file,
\* so an install adds no executable command.
C5_NoCommandLine ==
    /\ Prepared =>
           /\ DOMAIN metadata.entry_points = {}
           /\ metadata.scripts = {}
    /\ commands = {}

C5_Witness ==
    /\ pc = "installed"
    /\ commands = {}

\* C6: pytest >= 7.4.0 is an unconditional install-time requirement, listed
\* with the three libraries and not as an extra: with opencv-python, torch
\* and fastapi resolvable and pytest not, the install does not succeed.
C6_PytestRequired ==
    /\ Prepared =>
           /\ \E i \in 1..Len(metadata.requires_dist) :
                  metadata.requires_dist[i].name = Pytest
           /\ metadata.provides_extra = {}
    /\ (Resolvable(OpenCV) /\ Resolvable(Torch) /\ Resolvable(FastAPI)
            /\ ~Resolvable(Pytest)) => pc # "installed"

C6_Witness ==
    /\ pc = "failed"
    /\ Resolvable(OpenCV) /\ Resolvable(Torch) /\ Resolvable(FastAPI)
    /\ ~Resolvable(Pytest)
    /\ metadata.requires_dist[nxt].name = Pytest

\* C7: the shipped packages are those package discovery finds in the tree,
\* and it finds none: a successful install provides the metadata and the
\* dependencies but no importable module of the distribution's own.
C7_NoPackagesShipped ==
    /\ Prepared => metadata.packages = {}
    /\ modules = {}
    /\ pc = "installed" =>
           /\ metadata.name = "ai-video-editor-agent"
           /\ DOMAIN selected = Projects

C7_Witness ==
    /\ pc = "installed"
    /\ <<"docs", "usage.md">> \in tree
    /\ modules = {}

====
